---- MODULE Spec2Model ----
(***************************************************************************)
(* Model of liblight/lights.c (Samsung tuna lights HAL): three virtual    *)
(* LED states multiplexed onto one AN30259A LED, one step of the model    *)
(* per access to shared memory, to the lock or to the device.             *)
(*                                                                         *)
(* g_led_states is written by set_light_leds and read by                   *)
(* write_leds_priority without g_lock; the lock is held by write_leds      *)
(* and set_light_backlight only.  The unlocked accesses of two threads     *)
(* are interleaved field by field, in program order: every such            *)
(* interleaving is an outcome the data race allows.                        *)
(*                                                                         *)
(* Spec is the concurrent host (any thread calls at any time), SeqSpec     *)
(* the host that makes one call after another.                             *)
(***************************************************************************)
EXTENDS Integers, Sequences, FiniteSets, TLC

(* ------------------------------------------------------------------ *)
(* Bounds of the model                                                 *)
(* ------------------------------------------------------------------ *)
\* number of host threads that call into the module
NumThreads == 2
\* number of set_light calls that may be started in the concurrent
\* specification (the sequential one does not count them)
MaxCalls == 2
\* number of open_lights calls that may be started in the concurrent specification
MaxOpens == 2

Threads == 1..NumThreads
NoThread == 0

(* ------------------------------------------------------------------ *)
(* Program constants                                                   *)
(* ------------------------------------------------------------------ *)
IMAX == 0
SLOPE_UP_1 == 450
SLOPE_UP_2 == 500 - SLOPE_UP_1
SLOPE_DOWN_1 == SLOPE_UP_2
SLOPE_DOWN_2 == SLOPE_UP_1
MID_BRIGHTNESS == 31

LED_TYPE_ATTENTION == 0
LED_TYPE_NOTIFICATION == 1
LED_TYPE_CHARGING == 2
LED_TYPE_LAST == 3

\* enum values of <linux/leds-an30259a.h> and <hardware/lights.h>
LED_LIGHT_OFF == 0
LED_LIGHT_ON == 1
LED_LIGHT_SLOPE == 3
LIGHT_FLASH_NONE == 0
LIGHT_FLASH_TIMED == 1
LIGHT_FLASH_HARDWARE == 2

EINVAL == 22
\* 0x00ffffff, the white that is replaced, and 0x80ff80, what replaces it
WHITE == 16777215
WHITE_TWEAK == 8454016
\* errno values a failed open() of the LED node leaves (ENOENT, EACCES)
Errnos == {2, 13}

Pow2_16 == 65536
Pow2_24 == 16777216

(* ------------------------------------------------------------------ *)
(* Inputs                                                              *)
(* ------------------------------------------------------------------ *)
\* struct light_state_t values the host passes: off; steady red; blinking
\* white; a colour whose low 24 bits are zero (0x7f000000) with a flash
\* mode; red with a flashMode (3) that is none of NONE, TIMED, HARDWARE
Requests ==
    { [color |-> 0,          flashMode |-> LIGHT_FLASH_NONE,     flashOnMS |-> 0,    flashOffMS |-> 0],
      [color |-> 16711680,   flashMode |-> LIGHT_FLASH_NONE,     flashOnMS |-> 0,    flashOffMS |-> 0],
      [color |-> 16777215,   flashMode |-> LIGHT_FLASH_TIMED,    flashOnMS |-> 1000, flashOffMS |-> 500],
      [color |-> 2130706432, flashMode |-> LIGHT_FLASH_HARDWARE, flashOnMS |-> 1000, flashOffMS |-> 500],
      [color |-> 16711680,   flashMode |-> 3,                    flashOnMS |-> 1000, flashOffMS |-> 500] }

NoReq == [color |-> 0, flashMode |-> 0, flashOnMS |-> 0, flashOffMS |-> 0]

(* ------------------------------------------------------------------ *)
(* struct an30259a_pr_control, the fields lights.c uses                *)
(* ------------------------------------------------------------------ *)
ZeroDesc ==
    [color |-> 0, state |-> 0,
     time_slope_up_1 |-> 0, time_slope_up_2 |-> 0,
     time_slope_down_1 |-> 0, time_slope_down_2 |-> 0,
     mid_brightness |-> 0, time_off |-> 0]

\* "no descriptor": the hardware before any write, a call before its ioctl
NoDesc ==
    [color |-> -1, state |-> -1,
     time_slope_up_1 |-> -1, time_slope_up_2 |-> -1,
     time_slope_down_1 |-> -1, time_slope_down_2 |-> -1,
     mid_brightness |-> -1, time_off |-> -1]

(* ------------------------------------------------------------------ *)
(* C integer arithmetic                                                *)
(* ------------------------------------------------------------------ *)
\* slope * ms reduced to a 32-bit two's complement int (the wrapped product),
\* computed on 16-bit halves; slope is one of the SLOPE_ constants (< 2^15)
Mul32(slope, ms) ==
    LET bl == ms % Pow2_16
        bh == (ms \div Pow2_16) % Pow2_16
        low == slope * bl
        lo == low % Pow2_16
        hi == (slope * bh + (low \div Pow2_16)) % Pow2_16
    IN  IF hi >= 32768 THEN (hi - Pow2_16) * Pow2_16 + lo ELSE hi * Pow2_16 + lo

\* C division: truncation toward zero
CDiv(a, b) ==
    IF a >= 0 THEN a \div b ELSE -((-a) \div b)

\* (SLOPE * state->flashOnMS) / 1000 in int arithmetic
SlopeTime(slope, flashOnMS) ==
    CDiv(Mul32(slope, flashOnMS), 1000)

\* slope * ms fits an int: ms lies between INT_MIN / slope and INT_MAX / slope
Fits32(slope, ms) ==
    /\ ms <= 2147483647 \div slope
    /\ ms >= -(2147483647 \div slope)

\* slope * ms / 1000 without the limit of int, truncated toward zero
\* (slope / 1000 is 9/20 or 1/20: the SLOPE_ constants are multiples of 50)
WideSlopeTime(slope, ms) ==
    LET n == slope \div 50
        a == IF ms >= 0 THEN ms ELSE -ms
        q == (a \div 20) * n + ((a % 20) * n) \div 20
    IN  IF ms >= 0 THEN q ELSE -q

\* the values (SLOPE * state->flashOnMS) / 1000 can take: the quotient when
\* the product fits an int; when it does not the signed overflow is
\* undefined, and a build either wraps the product or, reasoning that it
\* cannot overflow, computes the quotient some other way
SlopeTimes(slope, flashOnMS) ==
    IF Fits32(slope, flashOnMS)
    THEN {SlopeTime(slope, flashOnMS)}
    ELSE {SlopeTime(slope, flashOnMS), WideSlopeTime(slope, flashOnMS)}

\* state->color & 0x00ffffff; a colour with bit 31 set is held as the
\* negative int of the same bit pattern, whose low 24 bits this is as well
Mask24(color) == color % Pow2_24

(* ------------------------------------------------------------------ *)
(* State                                                               *)
(* ------------------------------------------------------------------ *)
VARIABLES
    g_led_states,   \* the three virtual LED states, indexed by LED_Type
    g_lock,         \* owner of the mutex, NoThread when free
    hw,             \* the LED driver: [imax, led] last set by a successful ioctl
    pc,             \* per thread: position in the call it is executing
    type,           \* per thread: set_light_leds' type argument
    req,            \* per thread: the light_state_t set_light_leds reads
    i,              \* per thread: write_leds_priority's loop index, then the slot chosen
    fd,             \* per thread: the device the thread holds open: "none", "led", "lcd"
    err,            \* per thread: write_leds' err / the value returned
    pre,            \* per thread: g_led_states when the sequential host made the call (history)
    handed,         \* per thread: descriptor given to AN30259A_PR_SET_LED (history)
    ops,            \* per thread: device operations attempted by the call (history)
    fn,             \* per thread: the entry point it is in: "", "leds", "backlight", "open"
    arg,            \* per thread: the light_state_t the host passed (history)
    stored,         \* per LED type: what the last request made for it encodes to (history)
    name,           \* per thread: open_lights' name argument
    written,        \* per thread: the text write_int gave to write() (history)
    g_init,         \* the pthread_once control: "never", "running", "done"
    inits,          \* number of times pthread_once has called init_g_lock (history)
    opened,         \* the lights for which open_lights has returned a device
    ncalls,         \* set_light calls started in the concurrent specification
    nopens          \* open_lights calls started in the concurrent specification

budget == <<ncalls, nopens>>

vars == <<g_led_states, g_lock, hw, pc, type, req, i, fd, err, pre, handed, ops,
          fn, arg, stored, name, written, g_init, inits, opened, budget>>

Slots == 0..(LED_TYPE_LAST - 1)
NoStore == [s \in Slots |-> NoDesc]

Init ==
    /\ g_led_states = [s \in Slots |-> ZeroDesc]
    /\ g_lock = NoThread
    /\ hw = [imax |-> -1, led |-> NoDesc]
    /\ pc = [t \in Threads |-> "idle"]
    /\ type = [t \in Threads |-> 0]
    /\ req = [t \in Threads |-> NoReq]
    /\ i = [t \in Threads |-> 0]
    /\ fd = [t \in Threads |-> "none"]
    /\ err = [t \in Threads |-> 0]
    /\ pre = [t \in Threads |-> NoStore]
    /\ handed = [t \in Threads |-> NoDesc]
    /\ ops = [t \in Threads |-> <<>>]
    /\ fn = [t \in Threads |-> ""]
    /\ arg = [t \in Threads |-> NoReq]
    /\ stored = [s \in Slots |-> ZeroDesc]
    /\ name = [t \in Threads |-> ""]
    /\ written = [t \in Threads |-> <<>>]
    /\ g_init = "never"
    /\ inits = 0
    /\ opened = {}
    /\ ncalls = 0
    /\ nopens = 0

(* ------------------------------------------------------------------ *)
(* set_light_leds: entry                                               *)
(* ------------------------------------------------------------------ *)
\* set_light_leds(state, type): the range check, then led_state = &g_led_states[type]
set_light_leds(t, state, ty) ==
    /\ pc[t] = "idle"
    /\ type' = [type EXCEPT ![t] = ty]
    /\ req' = [req EXCEPT ![t] = state]
    /\ fn' = [fn EXCEPT ![t] = "leds"]
    /\ IF ty < 0 \/ ty >= LED_TYPE_LAST
       THEN /\ err' = [err EXCEPT ![t] = -EINVAL]
            /\ pc' = [pc EXCEPT ![t] = "done"]
       ELSE /\ err' = err
            /\ pc' = [pc EXCEPT ![t] = "memset"]
    /\ UNCHANGED <<g_led_states, g_lock, hw, i, fd, handed, ops, name, written, g_init, inits, opened>>

\* mutant: the copy is passed on as it came
attention_state_unforced(state) ==
    state

\* the copy of *state that set_light_leds_attention passes on
attention_state(state) ==
    IF state.flashMode = LIGHT_FLASH_NONE
    THEN [state EXCEPT !.color = 0]
    ELSE state

set_light_leds_notifications(t, state) ==
    set_light_leds(t, state, LED_TYPE_NOTIFICATION)

set_light_leds_attention(t, state) ==
    set_light_leds(t, attention_state(state), LED_TYPE_ATTENTION)

set_light_leds_battery(t, state) ==
    set_light_leds(t, state, LED_TYPE_CHARGING)

(* ------------------------------------------------------------------ *)
(* set_light_leds: the unlocked update of g_led_states[type]           *)
(* ------------------------------------------------------------------ *)
SetField(t, f, v) ==
    g_led_states' = [g_led_states EXCEPT ![type[t]][f] = v]

Goto(t, l) == pc' = [pc EXCEPT ![t] = l]

\* mutant: white is stored as it came
LedsTweak_none(t) ==
    /\ pc[t] = "tweak"
    /\ Goto(t, "switch")
    /\ UNCHANGED <<g_led_states, g_lock, hw, type, req, i, fd, err, pre, handed, ops, fn, arg, stored, name, written, g_init, inits, opened, budget>>

\* mutant: the slot is not cleared before it is filled
LedsMemset_skip(t) ==
    /\ pc[t] = "memset"
    /\ Goto(t, "color")
    /\ UNCHANGED <<g_led_states, g_lock, hw, type, req, i, fd, err, pre, handed, ops, fn, arg, stored, name, written, g_init, inits, opened, budget>>

\* memset(led_state, 0, sizeof(*led_state))
LedsMemset(t) ==
    /\ pc[t] = "memset"
    /\ g_led_states' = [g_led_states EXCEPT ![type[t]] = ZeroDesc]
    /\ Goto(t, "color")
    /\ UNCHANGED <<g_lock, hw, type, req, i, fd, err, pre, handed, ops, fn, arg, stored, name, written, g_init, inits, opened, budget>>

\* if (state->color & 0xffffff) led_state->color = state->color & 0x00ffffff
LedsColor(t) ==
    /\ pc[t] = "color"
    /\ IF Mask24(req[t].color) # 0
       THEN /\ SetField(t, "color", Mask24(req[t].color))
            /\ Goto(t, "tweak")
       ELSE /\ UNCHANGED g_led_states
            /\ Goto(t, "off")
    /\ UNCHANGED <<g_lock, hw, type, req, i, fd, err, pre, handed, ops, fn, arg, stored, name, written, g_init, inits, opened, budget>>

\* if (led_state->color == 0x00ffffff) led_state->color = 0x80ff80
LedsTweak(t) ==
    /\ pc[t] = "tweak"
    /\ IF g_led_states[type[t]].color = WHITE
       THEN SetField(t, "color", WHITE_TWEAK)
       ELSE UNCHANGED g_led_states
    /\ Goto(t, "switch")
    /\ UNCHANGED <<g_lock, hw, type, req, i, fd, err, pre, handed, ops, fn, arg, stored, name, written, g_init, inits, opened, budget>>

\* switch (state->flashMode): the store to led_state->state, or return -EINVAL
LedsSwitch(t) ==
    /\ pc[t] = "switch"
    /\ IF req[t].flashMode = LIGHT_FLASH_NONE
       THEN /\ SetField(t, "state", LED_LIGHT_ON)
            /\ Goto(t, "scan")
            /\ UNCHANGED err
       ELSE IF req[t].flashMode \in {LIGHT_FLASH_TIMED, LIGHT_FLASH_HARDWARE}
       THEN /\ SetField(t, "state", LED_LIGHT_SLOPE)
            /\ Goto(t, "up_1")
            /\ UNCHANGED err
       ELSE /\ UNCHANGED g_led_states
            /\ err' = [err EXCEPT ![t] = -EINVAL]
            /\ Goto(t, "done")
    /\ UNCHANGED <<g_lock, hw, type, req, i, fd, pre, handed, ops, fn, arg, stored, name, written, g_init, inits, opened, budget>>

\* the six stores of the LIGHT_FLASH_TIMED / LIGHT_FLASH_HARDWARE case
LedsSlope(t) ==
    /\ pc[t] \in {"up_1", "up_2", "down_1", "down_2", "mid", "time_off"}
    /\ CASE pc[t] = "up_1" ->
              /\ \E v \in SlopeTimes(SLOPE_UP_1, req[t].flashOnMS) :
                    SetField(t, "time_slope_up_1", v)
              /\ Goto(t, "up_2")
         [] pc[t] = "up_2" ->
              /\ \E v \in SlopeTimes(SLOPE_UP_2, req[t].flashOnMS) :
                    SetField(t, "time_slope_up_2", v)
              /\ Goto(t, "down_1")
         [] pc[t] = "down_1" ->
              /\ \E v \in SlopeTimes(SLOPE_DOWN_1, req[t].flashOnMS) :
                    SetField(t, "time_slope_down_1", v)
              /\ Goto(t, "down_2")
         [] pc[t] = "down_2" ->
              /\ \E v \in SlopeTimes(SLOPE_DOWN_2, req[t].flashOnMS) :
                    SetField(t, "time_slope_down_2", v)
              /\ Goto(t, "mid")
         [] pc[t] = "mid" ->
              /\ SetField(t, "mid_brightness", MID_BRIGHTNESS)
              /\ Goto(t, "time_off")
         [] pc[t] = "time_off" ->
              /\ SetField(t, "time_off", req[t].flashOffMS)
              /\ Goto(t, "scan")
    /\ UNCHANGED <<g_lock, hw, type, req, i, fd, err, pre, handed, ops, fn, arg, stored, name, written, g_init, inits, opened, budget>>

\* else led_state->state = LED_LIGHT_OFF
LedsOff(t) ==
    /\ pc[t] = "off"
    /\ SetField(t, "state", LED_LIGHT_OFF)
    /\ Goto(t, "scan")
    /\ UNCHANGED <<g_lock, hw, type, req, i, fd, err, pre, handed, ops, fn, arg, stored, name, written, g_init, inits, opened, budget>>

(* ------------------------------------------------------------------ *)
(* write_leds_priority: the unlocked scan                              *)
(* ------------------------------------------------------------------ *)
\* mutant: the slot just set is written, whatever the other slots hold
write_leds_priority_recent(t) ==
    /\ pc[t] = "scan"
    /\ i' = [i EXCEPT ![t] = type[t]]
    /\ Goto(t, "lock")
    /\ UNCHANGED <<g_led_states, g_lock, hw, type, req, fd, err, pre, handed, ops, fn, arg, stored, name, written, g_init, inits, opened, budget>>

\* mutant: the fall through takes the first slot instead of the last
write_leds_priority_first(t) ==
    /\ pc[t] = "scan"
    /\ IF i[t] < LED_TYPE_LAST
       THEN IF g_led_states[i[t]].state # LED_LIGHT_OFF
            THEN /\ Goto(t, "lock")
                 /\ UNCHANGED i
            ELSE /\ i' = [i EXCEPT ![t] = i[t] + 1]
                 /\ UNCHANGED pc
       ELSE /\ i' = [i EXCEPT ![t] = 0]
            /\ Goto(t, "lock")
    /\ UNCHANGED <<g_led_states, g_lock, hw, type, req, fd, err, pre, handed, ops, fn, arg, stored, name, written, g_init, inits, opened, budget>>

\* mutant: when no slot is lit nothing is written
write_leds_priority_idle(t) ==
    /\ pc[t] = "scan"
    /\ IF i[t] < LED_TYPE_LAST
       THEN IF g_led_states[i[t]].state # LED_LIGHT_OFF
            THEN /\ Goto(t, "lock")
                 /\ UNCHANGED i
            ELSE /\ i' = [i EXCEPT ![t] = i[t] + 1]
                 /\ UNCHANGED pc
       ELSE /\ i' = [i EXCEPT ![t] = LED_TYPE_LAST - 1]
            /\ Goto(t, "done")
    /\ UNCHANGED <<g_led_states, g_lock, hw, type, req, fd, err, pre, handed, ops, fn, arg, stored, name, written, g_init, inits, opened, budget>>

\* one iteration of for (i = 0; i < LED_TYPE_LAST; i++), or the fall
\* through to &g_led_states[LED_TYPE_LAST - 1]
write_leds_priority(t) ==
    /\ pc[t] = "scan"
    /\ IF i[t] < LED_TYPE_LAST
       THEN IF g_led_states[i[t]].state # LED_LIGHT_OFF
            THEN /\ Goto(t, "lock")
                 /\ UNCHANGED i
            ELSE /\ i' = [i EXCEPT ![t] = i[t] + 1]
                 /\ UNCHANGED pc
       ELSE /\ i' = [i EXCEPT ![t] = LED_TYPE_LAST - 1]
            /\ Goto(t, "lock")
    /\ UNCHANGED <<g_led_states, g_lock, hw, type, req, fd, err, pre, handed, ops, fn, arg, stored, name, written, g_init, inits, opened, budget>>

(* ------------------------------------------------------------------ *)
(* write_leds(&g_led_states[i])                                        *)
(* ------------------------------------------------------------------ *)
\* pthread_mutex_lock(&g_lock)
WriteLedsLock(t) ==
    /\ pc[t] = "lock"
    /\ g_lock = NoThread
    /\ g_lock' = t
    /\ Goto(t, "open")
    /\ UNCHANGED <<g_led_states, hw, type, req, i, fd, err, pre, handed, ops, fn, arg, stored, name, written, g_init, inits, opened, budget>>

\* mutant: a failed open leaves err as it was
WriteLedsOpen_noerr(t) ==
    /\ pc[t] = "open"
    /\ \/ /\ fd' = [fd EXCEPT ![t] = "led"]
          /\ ops' = [ops EXCEPT ![t] = Append(ops[t], "open")]
          /\ Goto(t, "imax")
          /\ UNCHANGED err
       \/ \E e \in Errnos :
          /\ e \in Errnos
          /\ UNCHANGED err
          /\ ops' = [ops EXCEPT ![t] = Append(ops[t], "open_failed")]
          /\ Goto(t, "unlock")
          /\ UNCHANGED fd
    /\ UNCHANGED <<g_led_states, g_lock, hw, type, req, i, pre, handed, fn, arg, stored, name, written, g_init, inits, opened, budget>>

\* mutant: a failed open returns at once, the mutex still held
WriteLedsOpen_leak(t) ==
    /\ pc[t] = "open"
    /\ \/ /\ fd' = [fd EXCEPT ![t] = "led"]
          /\ ops' = [ops EXCEPT ![t] = Append(ops[t], "open")]
          /\ Goto(t, "imax")
          /\ UNCHANGED err
       \/ \E e \in Errnos :
          /\ err' = [err EXCEPT ![t] = -e]
          /\ ops' = [ops EXCEPT ![t] = Append(ops[t], "open_failed")]
          /\ Goto(t, "done")
          /\ UNCHANGED fd
    /\ UNCHANGED <<g_led_states, g_lock, hw, type, req, i, pre, handed, fn, arg, stored, name, written, g_init, inits, opened, budget>>

\* fd = open(LED_FILE, O_RDWR); on failure err = -errno
WriteLedsOpen(t) ==
    /\ pc[t] = "open"
    /\ \/ /\ fd' = [fd EXCEPT ![t] = "led"]
          /\ ops' = [ops EXCEPT ![t] = Append(ops[t], "open")]
          /\ Goto(t, "imax")
          /\ UNCHANGED err
       \/ \E e \in Errnos :
          /\ err' = [err EXCEPT ![t] = -e]
          /\ ops' = [ops EXCEPT ![t] = Append(ops[t], "open_failed")]
          /\ Goto(t, "unlock")
          /\ UNCHANGED fd
    /\ UNCHANGED <<g_led_states, g_lock, hw, type, req, i, pre, handed, fn, arg, stored, name, written, g_init, inits, opened, budget>>

\* mutant: a failed AN30259A_PR_SET_IMAX ends the write
WriteLedsImax_abort(t) ==
    /\ pc[t] = "imax"
    /\ \/ /\ err' = [err EXCEPT ![t] = 0]
          /\ ops' = [ops EXCEPT ![t] = Append(ops[t], "imax")]
          /\ hw' = [hw EXCEPT !.imax = IMAX]
          /\ Goto(t, "set_led")
       \/ /\ err' = [err EXCEPT ![t] = -1]
          /\ ops' = [ops EXCEPT ![t] = Append(ops[t], "imax_failed")]
          /\ UNCHANGED hw
          /\ Goto(t, "close")
    /\ UNCHANGED <<g_led_states, g_lock, type, req, i, fd, pre, handed, fn, arg, stored, name, written, g_init, inits, opened, budget>>

\* err = ioctl(fd, AN30259A_PR_SET_IMAX, &imax)
WriteLedsImax(t) ==
    /\ pc[t] = "imax"
    /\ \/ /\ err' = [err EXCEPT ![t] = 0]
          /\ ops' = [ops EXCEPT ![t] = Append(ops[t], "imax")]
          /\ hw' = [hw EXCEPT !.imax = IMAX]
       \/ /\ err' = [err EXCEPT ![t] = -1]
          /\ ops' = [ops EXCEPT ![t] = Append(ops[t], "imax_failed")]
          /\ UNCHANGED hw
    /\ Goto(t, "set_led")
    /\ UNCHANGED <<g_led_states, g_lock, type, req, i, fd, pre, handed, fn, arg, stored, name, written, g_init, inits, opened, budget>>

\* err = ioctl(fd, AN30259A_PR_SET_LED, led): the driver reads *led now
WriteLedsSetLed(t) ==
    /\ pc[t] = "set_led"
    /\ handed' = [handed EXCEPT ![t] = g_led_states[i[t]]]
    /\ \/ /\ err' = [err EXCEPT ![t] = 0]
          /\ ops' = [ops EXCEPT ![t] = Append(ops[t], "set_led")]
          /\ hw' = [hw EXCEPT !.led = g_led_states[i[t]]]
       \/ /\ err' = [err EXCEPT ![t] = -1]
          /\ ops' = [ops EXCEPT ![t] = Append(ops[t], "set_led_failed")]
          /\ UNCHANGED hw
    /\ Goto(t, "close")
    /\ UNCHANGED <<g_led_states, g_lock, type, req, i, fd, pre, fn, arg, stored, name, written, g_init, inits, opened, budget>>

\* close(fd)
WriteLedsClose(t) ==
    /\ pc[t] = "close"
    /\ ops' = [ops EXCEPT ![t] = Append(ops[t], "close")]
    /\ fd' = [fd EXCEPT ![t] = "none"]
    /\ Goto(t, "unlock")
    /\ UNCHANGED <<g_led_states, g_lock, hw, type, req, i, err, pre, handed, fn, arg, stored, name, written, g_init, inits, opened, budget>>

\* pthread_mutex_unlock(&g_lock)
WriteLedsUnlock(t) ==
    /\ pc[t] = "unlock"
    /\ g_lock' = IF g_lock = t THEN NoThread ELSE g_lock
    /\ Goto(t, "done")
    /\ UNCHANGED <<g_led_states, hw, type, req, i, fd, err, pre, handed, ops, fn, arg, stored, name, written, g_init, inits, opened, budget>>

\* return err, back in the host
Return(t) ==
    /\ pc[t] = "done"
    /\ pc' = [pc EXCEPT ![t] = "idle"]
    /\ type' = [type EXCEPT ![t] = 0]
    /\ req' = [req EXCEPT ![t] = NoReq]
    /\ i' = [i EXCEPT ![t] = 0]
    /\ err' = [err EXCEPT ![t] = 0]
    /\ pre' = [pre EXCEPT ![t] = NoStore]
    /\ handed' = [handed EXCEPT ![t] = NoDesc]
    /\ ops' = [ops EXCEPT ![t] = <<>>]
    /\ fn' = [fn EXCEPT ![t] = ""]
    /\ arg' = [arg EXCEPT ![t] = NoReq]
    /\ name' = [name EXCEPT ![t] = ""]
    /\ written' = [written EXCEPT ![t] = <<>>]
    /\ UNCHANGED <<g_led_states, g_lock, hw, fd, stored, g_init, inits, opened, budget>>

(* ------------------------------------------------------------------ *)
(* Backlight                                                           *)
(* ------------------------------------------------------------------ *)
\* mutant: the mean of the three channels
rgb_to_brightness_mean(state) ==
    LET color == state.color % Pow2_24
    IN  (((color \div 65536) % 256) + ((color \div 256) % 256) + (color % 256)) \div 3

\* the luma of the low 24 bits of state->color
rgb_to_brightness(state) ==
    LET color == state.color % Pow2_24
    IN  (77 * ((color \div 65536) % 256)
         + 150 * ((color \div 256) % 256)
         + 29 * (color % 256)) \div 256

\* the characters sprintf(buffer, "%d", value) produces, value >= 0
RECURSIVE Decimal(_)
Decimal(value) ==
    IF value < 10
    THEN <<48 + value>>
    ELSE Append(Decimal(value \div 10), 48 + (value % 10))

\* sprintf(buffer, "%d\n", value)
FormatInt(value) == Append(Decimal(value), 10)

\* set_light_backlight(dev, state): brightness computed, the lock not yet taken
set_light_backlight(t, state) ==
    /\ pc[t] = "idle"
    /\ req' = [req EXCEPT ![t] = state]
    /\ fn' = [fn EXCEPT ![t] = "backlight"]
    /\ Goto(t, "bl_lock")
    /\ UNCHANGED <<g_led_states, g_lock, hw, type, i, fd, err, handed, ops,
                   name, written, g_init, inits, opened>>

\* mutant: the backlight path does not wait for the mutex
BacklightLock_none(t) ==
    /\ pc[t] = "bl_lock"
    /\ Goto(t, "bl_open")
    /\ UNCHANGED <<g_led_states, g_lock, hw, type, req, i, fd, err, pre, handed, ops,
                   fn, arg, stored, name, written, g_init, inits, opened, budget>>

\* pthread_mutex_lock(&g_lock)
BacklightLock(t) ==
    /\ pc[t] = "bl_lock"
    /\ g_lock = NoThread
    /\ g_lock' = t
    /\ Goto(t, "bl_open")
    /\ UNCHANGED <<g_led_states, hw, type, req, i, fd, err, pre, handed, ops,
                   fn, arg, stored, name, written, g_init, inits, opened, budget>>

\* write_int: fd = open(path, O_RDWR); on failure return -errno
WriteIntOpen(t) ==
    /\ pc[t] = "bl_open"
    /\ \/ /\ fd' = [fd EXCEPT ![t] = "lcd"]
          /\ ops' = [ops EXCEPT ![t] = Append(ops[t], "lcd_open")]
          /\ Goto(t, "bl_write")
          /\ UNCHANGED err
       \/ \E e \in Errnos :
          /\ err' = [err EXCEPT ![t] = -e]
          /\ ops' = [ops EXCEPT ![t] = Append(ops[t], "lcd_open_failed")]
          /\ Goto(t, "bl_unlock")
          /\ UNCHANGED fd
    /\ UNCHANGED <<g_led_states, g_lock, hw, type, req, i, pre, handed,
                   fn, arg, stored, name, written, g_init, inits, opened, budget>>

\* write_int: amt = write(fd, buffer, bytes); amt == -1 ? -errno : 0
WriteIntWrite(t) ==
    /\ pc[t] = "bl_write"
    /\ written' = [written EXCEPT ![t] = FormatInt(rgb_to_brightness(req[t]))]
    /\ \/ /\ err' = [err EXCEPT ![t] = 0]
          /\ ops' = [ops EXCEPT ![t] = Append(ops[t], "lcd_write")]
       \/ \E e \in Errnos :
          /\ err' = [err EXCEPT ![t] = -e]
          /\ ops' = [ops EXCEPT ![t] = Append(ops[t], "lcd_write_failed")]
    /\ Goto(t, "bl_close")
    /\ UNCHANGED <<g_led_states, g_lock, hw, type, req, i, fd, pre, handed,
                   fn, arg, stored, name, g_init, inits, opened, budget>>

\* write_int: close(fd)
WriteIntClose(t) ==
    /\ pc[t] = "bl_close"
    /\ ops' = [ops EXCEPT ![t] = Append(ops[t], "lcd_close")]
    /\ fd' = [fd EXCEPT ![t] = "none"]
    /\ Goto(t, "bl_unlock")
    /\ UNCHANGED <<g_led_states, g_lock, hw, type, req, i, err, pre, handed,
                   fn, arg, stored, name, written, g_init, inits, opened, budget>>

\* pthread_mutex_unlock(&g_lock); return err
BacklightUnlock(t) ==
    /\ pc[t] = "bl_unlock"
    /\ g_lock' = IF g_lock = t THEN NoThread ELSE g_lock
    /\ Goto(t, "done")
    /\ UNCHANGED <<g_led_states, hw, type, req, i, fd, err, pre, handed, ops,
                   fn, arg, stored, name, written, g_init, inits, opened, budget>>

(* ------------------------------------------------------------------ *)
(* open_lights and the one-time initialisation                         *)
(* ------------------------------------------------------------------ *)
\* LIGHT_ID_BACKLIGHT, _NOTIFICATIONS, _ATTENTION, _BATTERY
LightNames == {"backlight", "notifications", "attention", "battery"}
\* the names a host may ask for: the four above and one the module does not know
HostNames == LightNames \cup {"buttons"}

\* open_lights(module, name, device): the strcmp chain
open_lights(t, n) ==
    /\ pc[t] = "idle"
    /\ name' = [name EXCEPT ![t] = n]
    /\ fn' = [fn EXCEPT ![t] = "open"]
    /\ IF n \in LightNames
       THEN /\ Goto(t, "once")
            /\ UNCHANGED err
       ELSE /\ err' = [err EXCEPT ![t] = -EINVAL]
            /\ Goto(t, "done")
    /\ UNCHANGED <<g_led_states, g_lock, hw, type, req, i, fd, handed, ops,
                   written, g_init, inits, opened>>

\* mutant: init_g_lock is called by every open_lights
PthreadOnce_always(t) ==
    /\ pc[t] = "once"
    /\ g_init' = "running"
    /\ inits' = IF inits < 2 THEN inits + 1 ELSE inits
    /\ Goto(t, "mutex_init")
    /\ UNCHANGED <<g_led_states, g_lock, hw, type, req, i, fd, err, pre, handed, ops,
                   fn, arg, stored, name, written, opened, budget>>

\* pthread_once(&g_init, init_g_lock): the first caller runs init_g_lock, a
\* caller that finds it running waits, a later caller passes
PthreadOnce(t) ==
    /\ pc[t] = "once"
    /\ \/ /\ g_init = "never"
          /\ g_init' = "running"
          /\ inits' = inits + 1
          /\ Goto(t, "mutex_init")
       \/ /\ g_init = "done"
          /\ UNCHANGED <<g_init, inits>>
          /\ Goto(t, "device")
    /\ UNCHANGED <<g_led_states, g_lock, hw, type, req, i, fd, err, pre, handed, ops,
                   fn, arg, stored, name, written, opened, budget>>

\* init_g_lock: pthread_mutex_init(&g_lock, NULL)
InitLock(t) ==
    /\ pc[t] = "mutex_init"
    /\ g_lock' = NoThread
    /\ Goto(t, "init_memset")
    /\ UNCHANGED <<g_led_states, hw, type, req, i, fd, err, pre, handed, ops,
                   fn, arg, stored, name, written, g_init, inits, opened, budget>>

\* init_g_lock: memset(g_led_states, 0, sizeof(g_led_states)), and pthread_once returns
InitMemset(t) ==
    /\ pc[t] = "init_memset"
    /\ g_led_states' = [s \in Slots |-> ZeroDesc]
    /\ g_init' = "done"
    /\ Goto(t, "device")
    /\ UNCHANGED <<g_lock, hw, type, req, i, fd, err, pre, handed, ops,
                   fn, arg, stored, name, written, inits, opened, budget>>

\* the light_device_t is filled in and handed out; return 0
OpenLightsDevice(t) ==
    /\ pc[t] = "device"
    /\ opened' = opened \cup {name[t]}
    /\ err' = [err EXCEPT ![t] = 0]
    /\ Goto(t, "done")
    /\ UNCHANGED <<g_led_states, g_lock, hw, type, req, i, fd, pre, handed, ops,
                   fn, arg, stored, name, written, g_init, inits, budget>>

(* ------------------------------------------------------------------ *)
(* What the design document prescribes (used by the history variables   *)
(* and the properties, never by the actions above)                      *)
(* ------------------------------------------------------------------ *)
\* SlopeEncoder accepts the request
Valid(r) ==
    \/ Mask24(r.color) = 0
    \/ r.flashMode \in {LIGHT_FLASH_NONE, LIGHT_FLASH_TIMED, LIGHT_FLASH_HARDWARE}

\* SlopeEncoder's descriptor for an accepted request
Encoded(r) ==
    IF Mask24(r.color) = 0
    THEN ZeroDesc
    ELSE LET c == IF Mask24(r.color) = 16777215 THEN 8454016 ELSE Mask24(r.color)
         IN  IF r.flashMode = LIGHT_FLASH_NONE
             THEN [ZeroDesc EXCEPT !.color = c, !.state = LED_LIGHT_ON]
             ELSE [color |-> c, state |-> LED_LIGHT_SLOPE,
                   time_slope_up_1 |-> (450 * r.flashOnMS) \div 1000,
                   time_slope_up_2 |-> (50 * r.flashOnMS) \div 1000,
                   time_slope_down_1 |-> (50 * r.flashOnMS) \div 1000,
                   time_slope_down_2 |-> (450 * r.flashOnMS) \div 1000,
                   mid_brightness |-> 31, time_off |-> r.flashOffMS]

\* the request LightController encodes for a channel: setAttention forces
\* colour 0 when flashMode is None
Effective(ty, r) ==
    IF ty = LED_TYPE_ATTENTION /\ r.flashMode = LIGHT_FLASH_NONE
    THEN [r EXCEPT !.color = 0]
    ELSE r

\* the descriptor a request for channel ty is to leave in its slot, NoDesc
\* when the request is to be rejected
Expected(ty, r) ==
    IF Valid(Effective(ty, r)) THEN Encoded(Effective(ty, r)) ELSE NoDesc

\* PriorityArbiter: the first channel that is not Off, else Charging
Selection(store) ==
    IF store[LED_TYPE_ATTENTION].state # LED_LIGHT_OFF THEN LED_TYPE_ATTENTION
    ELSE IF store[LED_TYPE_NOTIFICATION].state # LED_LIGHT_OFF THEN LED_TYPE_NOTIFICATION
    ELSE LED_TYPE_CHARGING

(* ------------------------------------------------------------------ *)
(* Specifications                                                      *)
(* ------------------------------------------------------------------ *)
\* the host calls dev->set_light of a light it has opened
CallSetLight(t, state) ==
    \/ /\ "attention" \in opened
       /\ set_light_leds_attention(t, state)
    \/ /\ "notifications" \in opened
       /\ set_light_leds_notifications(t, state)
    \/ /\ "battery" \in opened
       /\ set_light_leds_battery(t, state)
    \/ /\ "backlight" \in opened
       /\ set_light_backlight(t, state)

\* the host opens a light
CallOpen(t) ==
    \E n \in HostNames : open_lights(t, n)

\* a step of a call in progress
Step(t) ==
    \/ LedsMemset(t)
    \/ LedsColor(t)
    \/ LedsTweak(t)
    \/ LedsSwitch(t)
    \/ LedsSlope(t)
    \/ LedsOff(t)
    \/ write_leds_priority(t)
    \/ WriteLedsLock(t)
    \/ WriteLedsOpen(t)
    \/ WriteLedsImax(t)
    \/ WriteLedsSetLed(t)
    \/ WriteLedsClose(t)
    \/ WriteLedsUnlock(t)
    \/ BacklightLock(t)
    \/ WriteIntOpen(t)
    \/ WriteIntWrite(t)
    \/ WriteIntClose(t)
    \/ BacklightUnlock(t)
    \/ PthreadOnce(t)
    \/ InitLock(t)
    \/ InitMemset(t)
    \/ OpenLightsDevice(t)
    \/ Return(t)

\* concurrent host: any thread calls at any time; at most MaxCalls set_light
\* calls and MaxOpens open_lights calls are started (the history variables
\* pre, arg and stored are kept by the sequential host only)
StartSetLight(t) ==
    /\ ncalls < MaxCalls
    /\ ncalls' = ncalls + 1
    /\ UNCHANGED <<nopens, pre, arg, stored>>
    /\ \E state \in Requests : CallSetLight(t, state)

StartOpen(t) ==
    /\ nopens < MaxOpens
    /\ nopens' = nopens + 1
    /\ UNCHANGED <<ncalls, pre, arg, stored>>
    /\ CallOpen(t)

Next ==
    \E t \in Threads :
        \/ StartSetLight(t)
        \/ StartOpen(t)
        \/ Step(t)

Spec == Init /\ [][Next]_vars

\* the LED type a call made now is for, LED_TYPE_LAST for the backlight
TypeOf(t) == IF fn'[t] = "leds" THEN type'[t] ELSE LED_TYPE_LAST

\* sequential host: a call is started only when no call is in progress
SeqSetLight(t) ==
    /\ \A u \in Threads : pc[u] = "idle"
    /\ UNCHANGED budget
    /\ \E state \in Requests :
        /\ CallSetLight(t, state)
        /\ pre' = [pre EXCEPT ![t] = g_led_states]
        /\ arg' = [arg EXCEPT ![t] = state]
        /\ stored' = [s \in Slots |->
                        IF s = TypeOf(t) THEN Expected(s, state) ELSE stored[s]]

SeqOpen(t) ==
    /\ \A u \in Threads : pc[u] = "idle"
    /\ UNCHANGED <<budget, pre, arg, stored>>
    /\ CallOpen(t)

SeqNext ==
    \E t \in Threads :
        \/ SeqSetLight(t)
        \/ SeqOpen(t)
        \/ Step(t)

SeqSpec == Init /\ [][SeqNext]_vars

\* fairly scheduled concurrent host with two lights: the threads open
\* "notifications" and "backlight" and call their set_light with an off, a
\* blinking and an unknown-flashMode request, within the same budget as Spec
FairRequests == {r \in Requests : r.color \in {0, 16777215} \/ r.flashMode = 3}

FairSetLight(t) ==
    /\ ncalls < MaxCalls
    /\ ncalls' = ncalls + 1
    /\ UNCHANGED <<nopens, pre, arg, stored>>
    /\ \E state \in FairRequests :
        \/ /\ "notifications" \in opened
           /\ set_light_leds_notifications(t, state)
        \/ /\ "backlight" \in opened
           /\ set_light_backlight(t, state)

FairOpen(t) ==
    /\ nopens < MaxOpens
    /\ nopens' = nopens + 1
    /\ UNCHANGED <<ncalls, pre, arg, stored>>
    /\ \E n \in {"notifications", "backlight"} : open_lights(t, n)

FairNext ==
    \E t \in Threads :
        \/ FairSetLight(t)
        \/ FairOpen(t)
        \/ Step(t)

\* every thread that can take a step of its call eventually takes one; a
\* thread waiting for the mutex or for pthread_once waits only while
\* another thread, itself scheduled, is inside
FairSpec == Init /\ [][FairNext]_vars /\ \A t \in Threads : WF_vars(Step(t))

\* the encoder on a wide range of requests: one call of a set_light of the
\* three LED lights, the lights opened and the slots either all zero or all
\* holding a blink left by earlier calls whose device writes failed
EncColors == {0, 1, 8454016, 16777214, 16777215, 16777216, -1, -16777216, -65536}
EncFlashModes == {LIGHT_FLASH_NONE, LIGHT_FLASH_TIMED, LIGHT_FLASH_HARDWARE, 3}
EncOnMS == {0, 1, 999, 1000, 4772185, 4772186, 2147483647, -1}
EncOffMS == {0, 500, 2147483647}

EncRequests ==
    [color : EncColors, flashMode : EncFlashModes,
     flashOnMS : EncOnMS, flashOffMS : EncOffMS]

\* what the slots hold when the call is made
EncPrior ==
    {ZeroDesc,
     [color |-> 255, state |-> LED_LIGHT_SLOPE,
      time_slope_up_1 |-> 45, time_slope_up_2 |-> 5,
      time_slope_down_1 |-> 5, time_slope_down_2 |-> 45,
      mid_brightness |-> MID_BRIGHTNESS, time_off |-> 7]}

\* the first thread has entered set_light_leds through one of the wrappers
EncInit ==
    \E state \in EncRequests, ty \in Slots, prior \in EncPrior :
        /\ g_led_states = [s \in Slots |-> prior]
        /\ g_lock = NoThread
        /\ hw = [imax |-> -1, led |-> NoDesc]
        /\ pc = [t \in Threads |-> IF t = 1 THEN "memset" ELSE "idle"]
        /\ type = [t \in Threads |-> IF t = 1 THEN ty ELSE 0]
        /\ req = [t \in Threads |->
                    IF t # 1 THEN NoReq
                    ELSE IF ty = LED_TYPE_ATTENTION THEN attention_state(state)
                    ELSE state]
        /\ i = [t \in Threads |-> 0]
        /\ fd = [t \in Threads |-> "none"]
        /\ err = [t \in Threads |-> 0]
        /\ pre = [t \in Threads |-> IF t = 1 THEN g_led_states ELSE NoStore]
        /\ handed = [t \in Threads |-> NoDesc]
        /\ ops = [t \in Threads |-> <<>>]
        /\ fn = [t \in Threads |-> IF t = 1 THEN "leds" ELSE ""]
        /\ arg = [t \in Threads |-> IF t = 1 THEN state ELSE NoReq]
        /\ stored = [s \in Slots |-> prior]
        /\ name = [t \in Threads |-> ""]
        /\ written = [t \in Threads |-> <<>>]
        /\ g_init = "done"
        /\ inits = 1
        /\ opened = {"notifications", "attention", "battery"}
        /\ ncalls = 0
        /\ nopens = 0

EncStep(t) ==
    \/ LedsMemset(t)
    \/ LedsColor(t)
    \/ LedsTweak(t)
    \/ LedsSwitch(t)
    \/ LedsSlope(t)
    \/ LedsOff(t)
    \/ write_leds_priority(t)
    \/ WriteLedsLock(t)
    \/ WriteLedsOpen(t)
    \/ WriteLedsImax(t)
    \/ WriteLedsSetLed(t)
    \/ WriteLedsClose(t)
    \/ WriteLedsUnlock(t)
    \/ Return(t)

EncNext == \E t \in Threads : EncStep(t)

EncSpec == EncInit /\ [][EncNext]_vars

\* the backlight on a wide range of colours: one set_light_backlight call,
\* the four lights opened, the slots as in EncPrior
BlColors ==
    EncColors \cup {255, 65280, 16711680, 8421504, 65793, 2130706432, 2147483647}

BlInit ==
    \E c \in BlColors, m \in EncFlashModes, prior \in EncPrior :
        /\ g_led_states = [s \in Slots |-> prior]
        /\ g_lock = NoThread
        /\ hw = [imax |-> -1, led |-> NoDesc]
        /\ pc = [t \in Threads |-> IF t = 1 THEN "bl_lock" ELSE "idle"]
        /\ type = [t \in Threads |-> 0]
        /\ req = [t \in Threads |->
                    IF t = 1 THEN [NoReq EXCEPT !.color = c, !.flashMode = m]
                    ELSE NoReq]
        /\ i = [t \in Threads |-> 0]
        /\ fd = [t \in Threads |-> "none"]
        /\ err = [t \in Threads |-> 0]
        /\ pre = [t \in Threads |-> IF t = 1 THEN g_led_states ELSE NoStore]
        /\ handed = [t \in Threads |-> NoDesc]
        /\ ops = [t \in Threads |-> <<>>]
        /\ fn = [t \in Threads |-> IF t = 1 THEN "backlight" ELSE ""]
        /\ arg = [t \in Threads |-> req[t]]
        /\ stored = [s \in Slots |-> prior]
        /\ name = [t \in Threads |-> ""]
        /\ written = [t \in Threads |-> <<>>]
        /\ g_init = "done"
        /\ inits = 1
        /\ opened = LightNames
        /\ ncalls = 0
        /\ nopens = 0

BlStep(t) ==
    \/ BacklightLock(t)
    \/ WriteIntOpen(t)
    \/ WriteIntWrite(t)
    \/ WriteIntClose(t)
    \/ BacklightUnlock(t)
    \/ Return(t)

BlNext == \E t \in Threads : BlStep(t)

BlSpec == BlInit /\ [][BlNext]_vars

(* ------------------------------------------------------------------ *)
(* Properties                                                          *)
(* ------------------------------------------------------------------ *)
\* thread t is in a set_light_leds call
InLeds(t) == fn[t] = "leds"
\* thread t is about to return from a set_light_leds call
LedsDone(t) == fn[t] = "leds" /\ pc[t] = "done"
\* thread t's call has issued its AN30259A_PR_SET_LED ioctl
HasWritten(t) == fn[t] = "leds" /\ handed[t] # NoDesc
\* the operations of a device write in which nothing failed
AllOk == <<"open", "imax", "set_led", "close">>
FailedOps == {"open_failed", "imax_failed", "set_led_failed"}
AnyFailed(t) == \E k \in 1..Len(ops[t]) : ops[t][k] \in FailedOps
\* the 24-bit colour the encoder stores
Tint(r) == IF Mask24(r.color) = 16777215 THEN 8454016 ELSE Mask24(r.color)

\* the set_light calls made so far are in progress (none has returned to
\* the host), all on LEDs, no two of them for the same channel
DifferentChannels ==
    /\ Cardinality({t \in Threads : InLeds(t)}) = ncalls
    /\ \A t, u \in Threads :
        (t # u /\ InLeds(t) /\ InLeds(u)) => type[t] # type[u]

\* C1: concurrent calls for different channels: once every call that was
\* started has reached its return with all four device operations
\* successful, the descriptor the LED hardware holds is the arbiter's
\* selection over the final store.
C1_FinalWriteIsSelection ==
    ( /\ DifferentChannels
      /\ \A t \in Threads : pc[t] \in {"idle", "done"}
      /\ \E t \in Threads : LedsDone(t)
      /\ \A t \in Threads : LedsDone(t) => ops[t] = AllOk )
    => hw.led = g_led_states[Selection(g_led_states)]

\* what a slot holds between calls: all zero, the encoding of one accepted
\* request, or what a rejected request leaves (its colour, state Off)
WholeDescriptors ==
    {ZeroDesc}
    \cup {Encoded(Effective(ty, r)) : ty \in Slots, r \in {q \in Requests : Valid(q)}}
    \cup {[ZeroDesc EXCEPT !.color = Tint(r)] : r \in {q \in Requests : ~Valid(q)}}

\* C2: concurrent calls for different channels: every descriptor handed to
\* the LED hardware in one write is the complete encoding of one request (or
\* all zero); what a rejected request leaves in a slot is let through here,
\* so that only a write of a slot caught in the middle of its update
\* violates this.
C2_NoTornDescriptor ==
    DifferentChannels =>
        \A t \in Threads : HasWritten(t) => handed[t] \in WholeDescriptors

\* C3: called one after another, a setNotification or setBattery call made
\* while Attention is not Off hands Attention's descriptor to the hardware,
\* and a setBattery call made while Attention is Off and Notification is not
\* hands Notification's.
C3_NoOverride ==
    \A t \in Threads : HasWritten(t) =>
        /\ ( /\ type[t] \in {LED_TYPE_NOTIFICATION, LED_TYPE_CHARGING}
             /\ g_led_states[LED_TYPE_ATTENTION].state # LED_LIGHT_OFF )
           => handed[t] = g_led_states[LED_TYPE_ATTENTION]
        /\ ( /\ type[t] = LED_TYPE_CHARGING
             /\ g_led_states[LED_TYPE_ATTENTION].state = LED_LIGHT_OFF
             /\ g_led_states[LED_TYPE_NOTIFICATION].state # LED_LIGHT_OFF )
           => handed[t] = g_led_states[LED_TYPE_NOTIFICATION]

\* a setBattery call that stored a lit descriptor wrote Attention's instead
C3_Witness ==
    \E t \in Threads :
        /\ HasWritten(t)
        /\ type[t] = LED_TYPE_CHARGING
        /\ g_led_states[LED_TYPE_CHARGING].state # LED_LIGHT_OFF
        /\ g_led_states[LED_TYPE_ATTENTION].state # LED_LIGHT_OFF
        /\ handed[t] = g_led_states[LED_TYPE_ATTENTION]
        /\ handed[t] # g_led_states[LED_TYPE_CHARGING]

\* C4: when the scan of write_leds_priority has ended, the slot it chose is
\* the first of Attention, Notification, Charging that is not Off, and
\* Charging's when all three are Off.
C4_ArbiterSelection ==
    \A t \in Threads :
        (InLeds(t) /\ pc[t] \in {"lock", "open", "imax", "set_led"})
        => /\ i[t] \in Slots
           /\ i[t] = Selection(g_led_states)

\* Attention Off, Notification and Charging steady on: Notification chosen
C4_Witness ==
    \E t \in Threads :
        /\ InLeds(t) /\ pc[t] = "lock"
        /\ g_led_states[LED_TYPE_ATTENTION].state = LED_LIGHT_OFF
        /\ g_led_states[LED_TYPE_NOTIFICATION].state = LED_LIGHT_ON
        /\ g_led_states[LED_TYPE_CHARGING].state = LED_LIGHT_ON
        /\ i[t] = LED_TYPE_NOTIFICATION

\* the request clears its channel: colour 0, or for Attention flashMode None
Clears(t) ==
    Mask24(arg[t].color) = 0
    \/ (type[t] = LED_TYPE_ATTENTION /\ arg[t].flashMode = LIGHT_FLASH_NONE)

\* C5: called one after another, a setNotification call made while Attention
\* was lit hands over what the last Attention request encodes to, and a
\* setAttention call that clears Attention hands over what the last request
\* of the first lit channel below it encodes to.
C5_HandOver ==
    \A t \in Threads : HasWritten(t) =>
        /\ ( /\ type[t] = LED_TYPE_NOTIFICATION
             /\ pre[t][LED_TYPE_ATTENTION].state # LED_LIGHT_OFF )
           => handed[t] = stored[LED_TYPE_ATTENTION]
        /\ ( /\ type[t] = LED_TYPE_ATTENTION
             /\ Clears(t) )
           => IF stored[LED_TYPE_NOTIFICATION] \notin {ZeroDesc, NoDesc}
              THEN handed[t] = stored[LED_TYPE_NOTIFICATION]
              ELSE stored[LED_TYPE_CHARGING] \notin {ZeroDesc, NoDesc}
                   => handed[t] = stored[LED_TYPE_CHARGING]

\* Attention was lit, the call clears it, Notification's descriptor is written
C5_Witness ==
    \E t \in Threads :
        /\ HasWritten(t)
        /\ type[t] = LED_TYPE_ATTENTION
        /\ Clears(t)
        /\ pre[t][LED_TYPE_ATTENTION].state # LED_LIGHT_OFF
        /\ stored[LED_TYPE_NOTIFICATION].state = LED_LIGHT_SLOPE
        /\ handed[t] = stored[LED_TYPE_NOTIFICATION]

\* C6: a set_light_leds call whose open of the LED device failed returns a
\* negative value and leaves the encoding of its request in its slot; and
\* every write hands over the slot the arbiter selects in the store as it
\* is, which, when lit, is what the last request for that channel encodes
\* to, whether or not that request's own write succeeded.
C6_FailedWriteStillStored ==
    \A t \in Threads :
        /\ (LedsDone(t) /\ ops[t] = <<"open_failed">>)
           => /\ err[t] < 0
              /\ g_led_states[type[t]] = Encoded(req[t])
              /\ g_led_states[type[t]] = stored[type[t]]
        /\ HasWritten(t)
           => /\ handed[t] = g_led_states[Selection(g_led_states)]
              /\ handed[t].state # LED_LIGHT_OFF
                 => handed[t] = stored[Selection(g_led_states)]

\* a lit request was stored by a call that could not open the device
C6_Witness ==
    \E t \in Threads :
        /\ LedsDone(t)
        /\ ops[t] = <<"open_failed">>
        /\ err[t] < 0
        /\ g_led_states[type[t]].state # LED_LIGHT_OFF

\* C7: a set_light_leds call in which the open or one of the two ioctls
\* failed returns an error.
C7_NoSilentSuccess ==
    \A t \in Threads : (LedsDone(t) /\ AnyFailed(t)) => err[t] < 0

\* C8: between calls, an Off slot is all zero, a steady slot has no timing,
\* a blinking slot has mid_brightness 31.
C8_SlotInvariant ==
    (\A t \in Threads : pc[t] = "idle") =>
        \A s \in Slots :
            LET d == g_led_states[s] IN
            /\ d.state = LED_LIGHT_OFF => d = ZeroDesc
            /\ d.state = LED_LIGHT_ON =>
                   d = [ZeroDesc EXCEPT !.color = d.color, !.state = LED_LIGHT_ON]
            /\ d.state = LED_LIGHT_SLOPE => d.mid_brightness = 31

\* C9: a call with a non-zero colour and an unknown flashMode returns
\* -EINVAL, touches no device and leaves the three slots as they were.
C9_RejectedLeavesStore ==
    \A t \in Threads :
        (LedsDone(t) /\ ~Valid(req[t]))
        => /\ err[t] = -EINVAL
           /\ ops[t] = <<>>
           /\ g_led_states = pre[t]

\* C10: the Attention slot is never steady on; a setAttention call with
\* flashMode None leaves it all zero whatever the colour, and the same
\* request to setNotification or setBattery leaves a steady descriptor of
\* that colour.
C10_AttentionNoneIsOff ==
    /\ g_led_states[LED_TYPE_ATTENTION].state \in {LED_LIGHT_OFF, LED_LIGHT_SLOPE}
    /\ \A t \in Threads :
        (LedsDone(t) /\ arg[t].flashMode = LIGHT_FLASH_NONE) =>
            IF type[t] = LED_TYPE_ATTENTION
            THEN g_led_states[type[t]] = ZeroDesc
            ELSE Mask24(arg[t].color) # 0 =>
                    g_led_states[type[t]] =
                        [ZeroDesc EXCEPT !.color = Tint(arg[t]), !.state = LED_LIGHT_ON]

\* setAttention(red, None) has left the Attention slot all zero
C10_Witness ==
    \E t \in Threads :
        /\ LedsDone(t)
        /\ type[t] = LED_TYPE_ATTENTION
        /\ arg[t].flashMode = LIGHT_FLASH_NONE
        /\ Mask24(arg[t].color) # 0
        /\ g_led_states[LED_TYPE_ATTENTION] = ZeroDesc

\* positions of a thread between pthread_mutex_lock and pthread_mutex_unlock
InCritical == {"open", "imax", "set_led", "close", "unlock",
               "bl_open", "bl_write", "bl_close", "bl_unlock"}
\* positions of a thread between a successful open() and its close()
HoldsFd == {"imax", "set_led", "close", "bl_write", "bl_close"}

\* the mutex is held only inside a device write and a device is open only
\* between open() and close(): a call that has returned holds neither
Released ==
    /\ \A t \in Threads :
        /\ g_lock = t => pc[t] \in InCritical
        /\ fd[t] # "none" => (pc[t] \in HoldsFd /\ g_lock = t)
    /\ (\A t \in Threads : pc[t] \notin InCritical) => g_lock = NoThread

\* C11: on every exit path of a device write (open failed, an ioctl or the
\* write failed, success) the mutex and the device handle are released: a
\* call that has returned holds neither; and, the threads being scheduled
\* fairly, every call that was started returns.
C11_ReleasedAndReturns ==
    /\ []Released
    /\ \A t \in Threads : (pc[t] # "idle") ~> (pc[t] = "idle")

\* a call whose open failed is about to return, the mutex free, while the
\* other thread waits for it
C11_Witness ==
    \E t, u \in Threads :
        /\ pc[t] = "done" /\ ops[t] = <<"open_failed">>
        /\ g_lock = NoThread /\ fd[t] = "none"
        /\ pc[u] \in {"lock", "bl_lock"}

\* C12: device accesses exclude one another: a thread between its
\* pthread_mutex_lock and pthread_mutex_unlock, in an LED write or in a
\* backlight write, owns the mutex, so no two threads are there together
\* and at most one thread has a device (LED or backlight) open.
C12_MutualExclusion ==
    /\ \A t \in Threads : pc[t] \in InCritical => g_lock = t
    /\ \A t, u \in Threads :
        (fd[t] # "none" /\ fd[u] # "none") => t = u

\* a thread has the LED device open, its set-max-current done, while a
\* backlight call of another thread waits for the mutex
C12_Witness ==
    \E t, u \in Threads :
        /\ fd[t] = "led" /\ pc[t] = "set_led"
        /\ pc[u] = "bl_lock"

\* thread t is inside init_g_lock
InInit(t) == pc[t] \in {"mutex_init", "init_memset"}

\* C13: however many open_lights calls are made, and from however many
\* threads at once, init_g_lock runs once: while it runs no set_light call
\* has been made, no light has been handed out and no thread holds the
\* mutex; and a step of open_lights made after a set_light call changes
\* neither a slot nor the mutex.
C13_InitOnce ==
    /\ [](/\ inits <= 1
          /\ (inits = 0) = (g_init = "never")
          /\ \A t, u \in Threads : (InInit(t) /\ InInit(u)) => t = u
          /\ \A t \in Threads :
                InInit(t) => (g_init = "running" /\ ncalls = 0
                              /\ opened = {} /\ g_lock = NoThread))
    /\ [][\A t \in Threads :
            (fn[t] = "open" /\ pc'[t] # pc[t] /\ ncalls > 0)
            => (g_led_states' = g_led_states /\ g_lock' = g_lock)]_vars

\* a second light is being opened, past pthread_once, after a set_light
\* call has left a lit slot: init_g_lock has run once
C13_Witness ==
    \E t \in Threads :
        /\ fn[t] = "open" /\ pc[t] = "device"
        /\ opened # {} /\ ncalls > 0 /\ inits = 1
        /\ \E s \in Slots : g_led_states[s].state # LED_LIGHT_OFF

\* C14: when the encoder has run on a request, whatever its flashMode: if
\* the low 24 bits of the colour are zero the slot is Off, all zero;
\* otherwise the slot's colour is the low 24 bits of the request's, except
\* that 0xFFFFFF has become 0x80FF80, which no other colour does.
C14_ColourHandling ==
    \A t \in Threads : LedsDone(t) =>
        LET d == g_led_states[type[t]]
            low == req[t].color % 16777216
        IN  IF low = 0
            THEN d.state = LED_LIGHT_OFF /\ d = ZeroDesc
            ELSE /\ low = 16777215 => d.color = 8454016
                 /\ low # 16777215 => d.color = low

\* the colour 0xFFFFFFFF (held as -1) with an unknown flashMode has been
\* stored as 0x80FF80 over a slot that held a blink
C14_Witness ==
    \E t \in Threads :
        /\ LedsDone(t)
        /\ req[t].color = -1 /\ req[t].flashMode = 3
        /\ pre[t][type[t]].state = LED_LIGHT_SLOPE
        /\ g_led_states[type[t]].color = 8454016

\* k * ms / 1000 over the integers, truncated toward zero
Scaled(k, ms) ==
    LET a == IF ms >= 0 THEN ms ELSE -ms
        q == k * (a \div 1000) + (k * (a % 1000)) \div 1000
    IN  IF ms >= 0 THEN q ELSE -q

\* C15: when the encoder has run on a request with flashMode Timed or
\* Hardware and a non-zero colour, for every flashOnMS of the int range the
\* four slope times are 450, 50, 50 and 450 thousandths of flashOnMS
\* (truncated), mid_brightness is 31 and time_off is flashOffMS.
C15_BlinkTiming ==
    \A t \in Threads :
        ( /\ LedsDone(t)
          /\ req[t].flashMode \in {LIGHT_FLASH_TIMED, LIGHT_FLASH_HARDWARE}
          /\ req[t].color % 16777216 # 0 )
        => LET d == g_led_states[type[t]]
               on == req[t].flashOnMS
           IN  /\ d.state = LED_LIGHT_SLOPE
               /\ d.time_slope_up_1 = Scaled(450, on)
               /\ d.time_slope_up_2 = Scaled(50, on)
               /\ d.time_slope_down_1 = Scaled(50, on)
               /\ d.time_slope_down_2 = Scaled(450, on)
               /\ d.mid_brightness = 31
               /\ d.time_off = req[t].flashOffMS

\* the number a text of decimal digits ended by a newline stands for, -1
\* when the text is not of that form
RECURSIVE Digits(_)
Digits(text) ==
    IF Len(text) = 0 THEN 0
    ELSE Digits(SubSeq(text, 1, Len(text) - 1)) * 10 + (text[Len(text)] - 48)

ParseInt(text) ==
    IF /\ Len(text) >= 2
       /\ text[Len(text)] = 10
       /\ \A k \in 1..(Len(text) - 1) : text[k] \in 48..57
       /\ (Len(text) > 2 => text[1] # 48)
    THEN Digits(SubSeq(text, 1, Len(text) - 1))
    ELSE -1

\* red, green and blue of a 32-bit colour: bits 16-23, 8-15, 0-7
Red(c) == ((c % 16777216) - (c % 65536)) \div 65536
Green(c) == ((c % 65536) - (c % 256)) \div 256
Blue(c) == c % 256

\* C16: what a set_light_backlight call gives to write() is the decimal
\* text of (77*R + 150*G + 29*B) >> 8 of the low 24 bits of the colour, a
\* value in 0..255 that is 255 for 0xFFFFFF and 0 for 0; and at no point of
\* the call is a slot changed, the LED device opened or an ioctl issued.
C16_Backlight ==
    \A t \in Threads : fn[t] = "backlight" =>
        /\ g_led_states = pre[t]
        /\ hw = [imax |-> -1, led |-> NoDesc]
        /\ handed[t] = NoDesc
        /\ fd[t] \in {"none", "lcd"}
        /\ \A k \in 1..Len(ops[t]) :
              ops[t][k] \in {"lcd_open", "lcd_open_failed", "lcd_write",
                             "lcd_write_failed", "lcd_close"}
        /\ pc[t] \in {"bl_close", "bl_unlock", "done"} =>
              IF written[t] = <<>>
              THEN ops[t] = <<"lcd_open_failed">>
              ELSE LET c == req[t].color
                       v == ParseInt(written[t])
                   IN  /\ v = (77 * Red(c) + 150 * Green(c) + 29 * Blue(c)) \div 256
                       /\ v \in 0..255
                       /\ c % 16777216 = 16777215 => v = 255
                       /\ c % 16777216 = 0 => v = 0

\* the colour 0xFFFFFFFF (held as -1) has been written as "255\n" while the
\* slots hold a blink
C16_Witness ==
    \E t \in Threads :
        /\ fn[t] = "backlight" /\ pc[t] = "done"
        /\ req[t].color = -1
        /\ ops[t] = <<"lcd_open", "lcd_write", "lcd_close">>
        /\ written[t] = <<50, 53, 53, 10>>
        /\ g_led_states[LED_TYPE_NOTIFICATION].state = LED_LIGHT_SLOPE

\* the operations of one LED write, in order, as far as the write has come
WriteShapes ==
    {<<"open_failed">>}
    \cup {<<"open", a, b, "close">> :
            a \in {"imax", "imax_failed"}, b \in {"set_led", "set_led_failed"}}

IsPrefix(p, q) == Len(p) <= Len(q) /\ SubSeq(q, 1, Len(p)) = p

\* C17: in an LED write that opened the device the operations are, in this
\* order and once each, AN30259A_PR_SET_IMAX (with the value IMAX),
\* AN30259A_PR_SET_LED and close: SET_LED is attempted whether or not
\* SET_IMAX failed, and the close comes after both.
C17_ControlOrder ==
    /\ hw.imax \in {-1, IMAX}
    /\ \A t \in Threads : InLeds(t) =>
        /\ \E w \in WriteShapes : IsPrefix(ops[t], w)
        /\ (LedsDone(t) /\ Len(ops[t]) >= 1 /\ ops[t][1] = "open")
           => /\ Len(ops[t]) = 4
              /\ ops[t][2] \in {"imax", "imax_failed"}
              /\ ops[t][3] \in {"set_led", "set_led_failed"}
              /\ ops[t][4] = "close"
        /\ (Len(ops[t]) >= 2 /\ ops[t][2] = "imax") => hw.imax = IMAX

\* a write whose set-max-current failed went on to set the descriptor
C17_Witness ==
    \E t \in Threads :
        /\ LedsDone(t)
        /\ ops[t] = <<"open", "imax_failed", "set_led", "close">>
        /\ hw.led = handed[t]

\* C18: an LED write changes the hardware only when both ioctls succeed:
\* the AN30259A_PR_SET_LED step of a write whose AN30259A_PR_SET_IMAX
\* failed leaves the descriptor the hardware shows as it was, and that of
\* a write in which both succeed leaves the one handed over.
C18_ChangeIffBothSucceed ==
    [][\A t \in Threads :
        (pc[t] = "set_led" /\ pc'[t] = "close")
        => /\ ops[t] = <<"open", "imax_failed">> => hw'.led = hw.led
           /\ ops'[t] = <<"open", "imax", "set_led">> => hw'.led = g_led_states[i[t]]]_vars

\* C19: called one after another, a set_light_leds call with an accepted
\* request returns after exactly one write attempt: one open and, when the
\* open succeeded, one of each ioctl and the close; so also when all three
\* slots are Off, when the slot chosen is not the one just set, and when an
\* operation failed.
C19_OneWritePerCall ==
    \A t \in Threads :
        (LedsDone(t) /\ Valid(req[t]))
        => /\ ops[t] \in WriteShapes
           /\ Cardinality({k \in 1..Len(ops[t]) :
                            ops[t][k] \in {"open", "open_failed"}}) = 1
           /\ ops[t][1] = "open" =>
                 /\ handed[t] = g_led_states[Selection(g_led_states)]
                 /\ (\A s \in Slots : g_led_states[s].state = LED_LIGHT_OFF)
                    => handed[t] = g_led_states[LED_TYPE_CHARGING]

\* all three slots are Off and the call has written Charging's Off
\* descriptor to a hardware that showed a lit one
C19_Witness ==
    \E t \in Threads :
        /\ LedsDone(t) /\ Valid(req[t])
        /\ \A s \in Slots : g_led_states[s].state = LED_LIGHT_OFF
        /\ ops[t] = AllOk
        /\ handed[t] = ZeroDesc /\ hw.led = ZeroDesc
        /\ pre[t][type[t]].state # LED_LIGHT_OFF

\* C20: called one after another, a set_light_leds call in which no device
\* operation failed, made when the hardware showed the arbiter's selection
\* over the store (or being a call that writes), returns with the hardware
\* showing the selection over the store as it now is, and with the slots of
\* the other two channels as they were.
C20_StoreHardwareConsistent ==
    \A t \in Threads :
        ( /\ LedsDone(t)
          /\ ~AnyFailed(t)
          /\ (Valid(req[t]) \/ hw.led = pre[t][Selection(pre[t])]) )
        => /\ hw.led = g_led_states[Selection(g_led_states)]
           /\ \A s \in Slots : s # type[t] => g_led_states[s] = pre[t][s]

====
